---- MODULE Spec2Model ----
(***************************************************************************)
(* Model of phoenixdb.cursor.Cursor (src/phoenixdb/cursor.py): the         *)
(* statement/frame lifecycle and pagination engine of one cursor, together *)
(* with the statement-execution client it talks to.                        *)
(*                                                                         *)
(* Every public method of Cursor is one action.  A method is translated as *)
(* an operator over an execution context                                   *)
(*     [self |-> the cursor's fields, calls |-> the requests it issued,    *)
(*      exc |-> "ok" or the name of the exception that left the method]    *)
(* so that a method calling another (fetchall -> fetchone ->               *)
(* _fetch_next_frame -> _set_frame) is a composition of operators.         *)
(* The client is deterministic given the statement the server holds        *)
(* (variable client); that statement, its split into frames and the place  *)
(* where the client misbehaves are inputs chosen when execute is called.   *)
(***************************************************************************)
EXTENDS Integers, Sequences, FiniteSets

----------------------------------------------------------------------------
(* Bounds of the model *)

MaxRows == 2
MaxParamSets == 2
MaxSize == 2
MaxCount == 1
MaxIter == 1

(* Program constants *)

DefaultArraysize == 1
DefaultItersize == 2000

----------------------------------------------------------------------------
(* Python's None, one sentinel per type it stands in for *)

NoneId == 0
NonePos == -1
NoneParams == 0
NoneSize == -1
NoneValue == [cls |-> "NoneType", v |-> 0]
NoneSignature == [none |-> TRUE, columns |-> <<>>]
NoneFrame == [none |-> TRUE, rows |-> <<>>, offset |-> 0, done |-> FALSE]

Handles == {1, 2}
Params == 1..MaxParamSets

(* A value as it comes over the wire, and the two conversions of           *)
(* _set_signature.  Decimal(Decimal(x)) = Decimal(x) and                   *)
(* float(float(x)) = float(x), as in Python.                               *)
Wire(n) == [cls |-> "wire", v |-> n]
Decimal(value) == [cls |-> "Decimal", v |-> value.v]
float(value) == [cls |-> "float", v |-> value.v]

(* signature['columns'][i]['columnClassName'] *)
(* The signature of the queries: a column that is left as it is, one that  *)
(* is converted to Decimal and one that is converted to float.             *)
QuerySignature ==
  [none |-> FALSE,
   columns |-> <<"java.lang.Integer", "java.math.BigDecimal", "java.lang.Double">>]
(* The signature the server may report for a data-modifying statement *)
DmlSignature == [none |-> FALSE, columns |-> <<"java.lang.Float">>]
Signatures == {QuerySignature, DmlSignature}

----------------------------------------------------------------------------
(* The statement the server holds for the cursor: the logical result set   *)
(* of a query and the way it is split into frames, or the affected-row     *)
(* count of a data-modifying statement.                                    *)

RECURSIVE Sum(_, _)
Sum(s, n) == IF n = 0 THEN 0 ELSE s[n] + Sum(s, n - 1)

PageSplits ==
  { s \in UNION { [1..k -> 0..MaxRows] : k \in 1..(MaxRows + 1) } :
      /\ \A i \in 1..(Len(s) - 1) : s[i] >= 1
      /\ Sum(s, Len(s)) <= MaxRows }

(* Where the client fails: nowhere (at = 0), or on the last frame the      *)
(* statement has.  No frame is requested after the one that failed, so a   *)
(* statement is given by its frames up to that one; the rows of the frame  *)
(* that fails are never seen, so it is given none.                         *)
Faults(sizes) ==
  {[at |-> 0, kind |-> "raise"]}
    \cup IF sizes[Len(sizes)] = 0
         THEN [at : {Len(sizes)}, kind : {"raise", "empty"}]
         ELSE {}

NoStatement ==
  [kind |-> "none", signature |-> NoneSignature, sizes |-> <<>>,
   fault |-> [at |-> 0, kind |-> "raise"], count |-> -1, frameless |-> TRUE]

Queries ==
  { [kind |-> "query", signature |-> sig, sizes |-> s,
     fault |-> f, count |-> -1, frameless |-> FALSE] :
      sig \in {QuerySignature},
      s \in PageSplits, f \in [at : 0..(MaxRows + 1), kind : {"raise", "empty"}] }

(* A data-modifying statement: the client's answer to the request for its  *)
(* first frame may raise as well, and then neither a frame nor a count is  *)
(* seen.                                                                   *)
DataModifying ==
  { st \in [kind : {"dml"}, signature : {NoneSignature, DmlSignature}, sizes : {<<>>},
            fault : [at : {0, 1}, kind : {"raise"}], count : 1..MaxCount,
            frameless : BOOLEAN] :
      st.fault.at = 1 => st.frameless }

Statements ==
  { st \in Queries : st.fault \in Faults(st.sizes) } \cup DataModifying

(* Row k (1-based) of the logical result set of a statement *)
Row(st, k) ==
  [i \in 1..Len(st.signature.columns) |->
     IF i = 1 THEN Wire(k)
     ELSE IF i = 2 THEN IF k % 2 = 0 THEN NoneValue ELSE Wire(100 + k)
     ELSE Wire(200 + k)]

ResultSet(st) == [k \in 1..Sum(st.sizes, Len(st.sizes)) |-> Row(st, k)]

(* Frame j of the statement as the server would deliver it *)
FrameOf(st, j) ==
  LET offset == Sum(st.sizes, j - 1) IN
  IF st.fault.at = j /\ st.fault.kind = "empty"
  THEN [none |-> FALSE, rows |-> <<>>, offset |-> offset, done |-> FALSE]
  ELSE [none |-> FALSE,
        rows |-> [k \in 1..st.sizes[j] |-> Row(st, offset + k)],
        offset |-> offset,
        done |-> (j = Len(st.sizes))]

(* The client's answer to a request for the first frame of a statement     *)
(* (in prepareAndExecute, or in the fetch that carries the parameters)     *)
ClientFirstFrame(st) ==
  IF st.kind = "none" \/ (st.fault.at = 1 /\ st.fault.kind = "raise")
  THEN [raises |-> TRUE, frame |-> NoneFrame]
  ELSE IF st.kind = "query"
  THEN [raises |-> FALSE, frame |-> FrameOf(st, 1)]
  ELSE [raises |-> FALSE,
        frame |-> IF st.frameless THEN NoneFrame
                  ELSE [none |-> FALSE, rows |-> <<>>, offset |-> 0, done |-> TRUE]]

(* The client's answer to fetch(offset=offset): the frame that starts at   *)
(* that offset; an error when the server holds no such frame.              *)
ClientFetch(st, offset) ==
  LET js == { j \in 2..Len(st.sizes) : Sum(st.sizes, j - 1) = offset } IN
  IF st.kind # "query" \/ js = {}
  THEN [raises |-> TRUE, frame |-> NoneFrame]
  ELSE LET j == CHOOSE j \in js : TRUE IN
       IF st.fault.at = j /\ st.fault.kind = "raise"
       THEN [raises |-> TRUE, frame |-> NoneFrame]
       ELSE [raises |-> FALSE, frame |-> FrameOf(st, j)]

(* How a reply is recorded in the request log *)
ReplyOf(reply) ==
  IF reply.raises THEN "raise"
  ELSE IF reply.frame = NoneFrame THEN "none"
  ELSE IF reply.frame.rows = <<>> /\ ~reply.frame.done THEN "malformed"
  ELSE "frame"

----------------------------------------------------------------------------
(* Execution contexts *)

Request(op, id, offset, params, max, reply) ==
  [op |-> op, id |-> id, offset |-> offset, params |-> params,
   maxRowCount |-> max, reply |-> reply]

(* ret is the value returned: a list of rows; for fetchone <<row>>, or      *)
(* <<>> for None.  A method left by an exception returns nothing.          *)
Ctx(self) == [self |-> self, calls |-> <<>>, exc |-> "ok", ret |-> <<>>]
Call(c, request) == [c EXCEPT !.calls = Append(@, request)]
Raise(c, exc) == [c EXCEPT !.exc = exc, !.ret = <<>>]
Return(c, ret) == [c EXCEPT !.ret = ret]

----------------------------------------------------------------------------
(* Cursor: the private helpers *)

(* _set_id closing the statement held also when it is given the same id *)
_set_id_always_closes(c, id, closeFails) ==
  IF c.self._id # NoneId
  THEN LET c1 == Call(c, Request("closeStatement", c.self._id, -1, NoneParams, -1,
                                 IF closeFails THEN "raise" ELSE "ok"))
       IN IF closeFails THEN Raise(c1, "ClientError")
          ELSE [c1 EXCEPT !.self._id = id]
  ELSE [c EXCEPT !.self._id = id]

(* closeFails: whether the client's closeStatement raises *)
_set_id(c, id, closeFails) ==
  IF c.self._id # NoneId /\ c.self._id # id
  THEN LET c1 == Call(c, Request("closeStatement", c.self._id, -1, NoneParams, -1,
                                 IF closeFails THEN "raise" ELSE "ok"))
       IN IF closeFails THEN Raise(c1, "ClientError")
          ELSE [c1 EXCEPT !.self._id = id]
  ELSE [c EXCEPT !.self._id = id]

RECURSIVE DataTypes(_, _)
DataTypes(columns, n) ==
  IF n = 0 THEN <<>>
  ELSE LET rest == DataTypes(columns, n - 1) IN
       IF columns[n] = "java.math.BigDecimal"
       THEN Append(rest, [i |-> n - 1, data_type |-> "Decimal"])
       ELSE IF columns[n] = "java.lang.Float" \/ columns[n] = "java.lang.Double"
       THEN Append(rest, [i |-> n - 1, data_type |-> "float"])
       ELSE rest

_set_signature(c, signature) ==
  [c EXCEPT !.self._signature = signature,
            !.self._data_types =
               IF signature = NoneSignature THEN <<>>
               ELSE DataTypes(signature.columns, Len(signature.columns))]

(* _set_frame without the reset of the position *)
_set_frame_keeps_pos(c, frame) ==
  LET c1 == [c EXCEPT !.self._frame = frame] IN
  IF frame # NoneFrame
  THEN IF frame.rows # <<>> THEN [c1 EXCEPT !.self._pos = 0]
       ELSE IF ~frame.done THEN Raise(c1, "NameError")
       ELSE c1
  ELSE c1

(* The module imports OperationalError, NotSupportedError and              *)
(* ProgrammingError only: evaluating the name InternalError in the raise   *)
(* statement raises NameError.                                             *)
_set_frame(c, frame) ==
  LET c1 == [c EXCEPT !.self._frame = frame, !.self._pos = NonePos] IN
  IF frame # NoneFrame
  THEN IF frame.rows # <<>> THEN [c1 EXCEPT !.self._pos = 0]
       ELSE IF ~frame.done THEN Raise(c1, "NameError")
       ELSE c1
  ELSE c1

(* _fetch_next_frame asking again for the page it holds *)
_fetch_next_frame_same_page(c, cl) ==
  LET offset == c.self._frame.offset
      reply == ClientFetch(cl, offset)
      c1 == Call(c, Request("fetch", c.self._id, offset, NoneParams,
                            c.self.itersize, ReplyOf(reply)))
  IN IF reply.raises THEN Raise(c1, "ClientError")
     ELSE _set_frame(c1, reply.frame)

_fetch_next_frame(c, cl) ==
  LET offset == c.self._frame.offset + Len(c.self._frame.rows)
      reply == ClientFetch(cl, offset)
      c1 == Call(c, Request("fetch", c.self._id, offset, NoneParams,
                            c.self.itersize, ReplyOf(reply)))
  IN IF reply.raises THEN Raise(c1, "ClientError")
     ELSE _set_frame(c1, reply.frame)

----------------------------------------------------------------------------
(* Cursor: the public methods *)

(* close dropping the statement id without closeStatement *)
close_forgets_statement(c, closeFails) ==
  IF c.self._closed THEN Raise(c, "ProgrammingError")
  ELSE [c EXCEPT !.self._id = NoneId,
                 !.self._signature = NoneSignature,
                 !.self._data_types = <<>>,
                 !.self._frame = NoneFrame,
                 !.self._pos = NonePos,
                 !.self._closed = TRUE]

close(c, closeFails) ==
  IF c.self._closed THEN Raise(c, "ProgrammingError")
  ELSE LET c1 == IF c.self._id # NoneId
                 THEN LET c2 == Call(c, Request("closeStatement", c.self._id, -1,
                                                NoneParams, -1,
                                                IF closeFails THEN "raise" ELSE "ok"))
                      IN IF closeFails THEN Raise(c2, "ClientError")
                         ELSE [c2 EXCEPT !.self._id = NoneId]
                 ELSE c
       IN IF c1.exc # "ok" THEN c1
          ELSE [c1 EXCEPT !.self._signature = NoneSignature,
                          !.self._data_types = <<>>,
                          !.self._frame = NoneFrame,
                          !.self._pos = NonePos,
                          !.self._closed = TRUE]

(* __del__ reads self._connection._closed, a field of the connection *)
__del__(c, connection_closed, closeFails) ==
  IF ~connection_closed /\ ~c.self._closed THEN close(c, closeFails) ELSE c

(* __exit__ closes an open cursor, whatever the state of the connection *)
__exit__(c, closeFails) ==
  IF ~c.self._closed THEN close(c, closeFails) ELSE c

(* The loop of fetchone converting None as well *)
RECURSIVE Coerce_converts_none(_, _, _)
Coerce_converts_none(row, data_types, n) ==
  IF n = 0 THEN [row |-> row, exc |-> "ok"]
  ELSE LET before == Coerce_converts_none(row, data_types, n - 1)
           i == data_types[n].i
       IN IF before.exc # "ok" THEN before
          ELSE IF i >= Len(row) THEN [before EXCEPT !.exc = "IndexError"]
          ELSE LET value == before.row[i + 1] IN
               [before EXCEPT !.row[i + 1] =
                  IF data_types[n].data_type = "Decimal" THEN Decimal(value)
                  ELSE float(value)]

(* The loop of fetchone over _data_types, applied to the first n entries:  *)
(* IndexError when an entry names a column the row does not have.          *)
RECURSIVE Coerce(_, _, _)
Coerce(row, data_types, n) ==
  IF n = 0 THEN [row |-> row, exc |-> "ok"]
  ELSE LET before == Coerce(row, data_types, n - 1)
           i == data_types[n].i
       IN IF before.exc # "ok" THEN before
          ELSE IF i >= Len(row) THEN [before EXCEPT !.exc = "IndexError"]
          ELSE LET value == before.row[i + 1] IN
               IF value # NoneValue
               THEN [before EXCEPT !.row[i + 1] =
                       IF data_types[n].data_type = "Decimal" THEN Decimal(value)
                       ELSE float(value)]
               ELSE before

(* fetchone asking for a next frame also after the frame marked done *)
fetchone_ignores_done(c, cl) ==
  IF c.self._frame = NoneFrame THEN Raise(c, "ProgrammingError")
  ELSE IF c.self._pos = NonePos THEN Return(c, <<>>)
  ELSE LET rows == c.self._frame.rows
           at == c.self._pos
           row == rows[at + 1]
           c1 == [c EXCEPT !.self._pos = at + 1]
           replaced == c1.self._pos >= Len(rows) /\ ~c.self._frame.done
           c2 == IF c1.self._pos >= Len(rows)
                 THEN LET c3 == [c1 EXCEPT !.self._pos = NonePos] IN
                      _fetch_next_frame(c3, cl)
                 ELSE c1
       IN IF c2.exc # "ok" THEN c2
          ELSE LET coerced == Coerce(row, c2.self._data_types, Len(c2.self._data_types))
                   \* row[i] = ... writes into the list held by the frame the
                   \* row was read from, which is still the buffer unless a
                   \* new frame has replaced it
                   c4 == IF replaced THEN c2
                         ELSE [c2 EXCEPT !.self._frame.rows[at + 1] = coerced.row]
               IN IF coerced.exc # "ok" THEN Raise(c4, coerced.exc)
                  ELSE Return(c4, <<coerced.row>>)

(* fetchone never asking for the next frame *)
fetchone_stops_at_page_end(c, cl) ==
  IF c.self._frame = NoneFrame THEN Raise(c, "ProgrammingError")
  ELSE IF c.self._pos = NonePos THEN Return(c, <<>>)
  ELSE LET rows == c.self._frame.rows
           at == c.self._pos
           row == rows[at + 1]
           c1 == [c EXCEPT !.self._pos = at + 1]
           replaced == FALSE
           c2 == IF c1.self._pos >= Len(rows)
                 THEN LET c3 == [c1 EXCEPT !.self._pos = NonePos] IN
                      c3
                 ELSE c1
       IN IF c2.exc # "ok" THEN c2
          ELSE LET coerced == Coerce(row, c2.self._data_types, Len(c2.self._data_types))
                   \* row[i] = ... writes into the list held by the frame the
                   \* row was read from, which is still the buffer unless a
                   \* new frame has replaced it
                   c4 == IF replaced THEN c2
                         ELSE [c2 EXCEPT !.self._frame.rows[at + 1] = coerced.row]
               IN IF coerced.exc # "ok" THEN Raise(c4, coerced.exc)
                  ELSE Return(c4, <<coerced.row>>)

fetchone(c, cl) ==
  IF c.self._frame = NoneFrame THEN Raise(c, "ProgrammingError")
  ELSE IF c.self._pos = NonePos THEN Return(c, <<>>)
  ELSE LET rows == c.self._frame.rows
           at == c.self._pos
           row == rows[at + 1]
           c1 == [c EXCEPT !.self._pos = at + 1]
           replaced == c1.self._pos >= Len(rows) /\ ~c.self._frame.done
           c2 == IF c1.self._pos >= Len(rows)
                 THEN LET c3 == [c1 EXCEPT !.self._pos = NonePos] IN
                      IF ~c3.self._frame.done THEN _fetch_next_frame(c3, cl) ELSE c3
                 ELSE c1
       IN IF c2.exc # "ok" THEN c2
          ELSE LET coerced == Coerce(row, c2.self._data_types, Len(c2.self._data_types))
                   \* row[i] = ... writes into the list held by the frame the
                   \* row was read from, which is still the buffer unless a
                   \* new frame has replaced it
                   c4 == IF replaced THEN c2
                         ELSE [c2 EXCEPT !.self._frame.rows[at + 1] = coerced.row]
               IN IF coerced.exc # "ok" THEN Raise(c4, coerced.exc)
                  ELSE Return(c4, <<coerced.row>>)

RECURSIVE fetchmany_loop(_, _, _, _)
fetchmany_loop(c, cl, size, rows) ==
  IF size > 0
  THEN LET r == fetchone(c, cl) IN
       IF r.exc # "ok" THEN r
       ELSE IF r.ret = <<>> THEN Return(r, rows)
       ELSE fetchmany_loop(r, cl, size - 1, Append(rows, r.ret[1]))
  ELSE Return(c, rows)

(* fetchmany looping while size >= 0 *)
fetchmany_one_more(c, cl, size) ==
  fetchmany_loop(c, cl, (IF size = NoneSize THEN c.self.arraysize ELSE size) + 1, <<>>)

fetchmany(c, cl, size) ==
  fetchmany_loop(c, cl, IF size = NoneSize THEN c.self.arraysize ELSE size, <<>>)

RECURSIVE fetchall_loop(_, _, _)
fetchall_loop(c, cl, rows) ==
  LET r == fetchone(c, cl) IN
  IF r.exc # "ok" THEN r
  ELSE IF r.ret = <<>> THEN Return(r, rows)
  ELSE fetchall_loop(r, cl, Append(rows, r.ret[1]))

fetchall(c, cl) == fetchall_loop(c, cl, <<>>)

(* next(): fetchone, with StopIteration in place of None *)
next(c, cl) ==
  LET row == fetchone(c, cl) IN
  IF row.exc # "ok" THEN row
  ELSE IF row.ret = <<>> THEN Raise(row, "StopIteration")
  ELSE row

(* rownumber without the offset of the frame *)
rownumber_in_page(self) == self._pos

(* The rownumber property: NonePos for None *)
rownumber(self) ==
  IF self._frame # NoneFrame /\ self._pos # NonePos
  THEN self._frame.offset + self._pos
  ELSE self._pos

(* execute without the reset of the update count *)
execute_no_reset(c, st, parameters, cb) ==
  IF c.self._closed THEN Raise(c, "ProgrammingError")
  ELSE
  LET c0 == c
      first == ClientFirstFrame(st)
  IN
  IF parameters = NoneParams
  THEN LET reply == IF cb.fails THEN "raise"
                    ELSE IF cb.empty THEN "empty"
                    ELSE ReplyOf(first)
           c1 == Call(c0, Request("prepareAndExecute", c0.self._id, -1, NoneParams,
                                  c0.self.itersize, reply))
       IN IF reply = "raise" THEN Raise(c1, "ClientError")
          ELSE IF reply = "empty" THEN c1
          ELSE LET c2 == IF cb.own THEN _set_id(c1, cb.handle, cb.closeFails) ELSE c1
               IN IF c2.exc # "ok" THEN c2
                  ELSE LET c3 == _set_frame(_set_signature(c2, st.signature),
                                            first.frame)
                       IN IF c3.exc # "ok" THEN c3
                          ELSE [c3 EXCEPT !.self._updatecount = st.count]
  ELSE LET c1 == Call(c0, Request("prepare", c0.self._id, -1, NoneParams,
                                  c0.self.itersize,
                                  IF cb.fails THEN "raise" ELSE "ok"))
       IN IF cb.fails THEN Raise(c1, "ClientError")
          ELSE LET c2 == _set_id(c1, cb.handle, cb.closeFails) IN
               IF c2.exc # "ok" THEN c2
               ELSE LET c3 == _set_signature(c2, st.signature)
                        c4 == Call(c3, Request("fetch", c3.self._id, -1, parameters,
                                               c3.self.itersize, ReplyOf(first)))
                    IN IF first.raises THEN Raise(c4, "ClientError")
                       ELSE _set_frame(c4, first.frame)

(* execute preparing the statement with no bound on the rows *)
execute_prepare_unbounded(c, st, parameters, cb) ==
  IF c.self._closed THEN Raise(c, "ProgrammingError")
  ELSE
  LET c0 == [c EXCEPT !.self._updatecount = -1]
      first == ClientFirstFrame(st)
  IN
  IF parameters = NoneParams
  THEN LET reply == IF cb.fails THEN "raise"
                    ELSE IF cb.empty THEN "empty"
                    ELSE ReplyOf(first)
           c1 == Call(c0, Request("prepareAndExecute", c0.self._id, -1, NoneParams,
                                  c0.self.itersize, reply))
       IN IF reply = "raise" THEN Raise(c1, "ClientError")
          ELSE IF reply = "empty" THEN c1
          ELSE LET c2 == IF cb.own THEN _set_id(c1, cb.handle, cb.closeFails) ELSE c1
               IN IF c2.exc # "ok" THEN c2
                  ELSE LET c3 == _set_frame(_set_signature(c2, st.signature),
                                            first.frame)
                       IN IF c3.exc # "ok" THEN c3
                          ELSE [c3 EXCEPT !.self._updatecount = st.count]
  ELSE LET c1 == Call(c0, Request("prepare", c0.self._id, -1, NoneParams,
                                  -1,
                                  IF cb.fails THEN "raise" ELSE "ok"))
       IN IF cb.fails THEN Raise(c1, "ClientError")
          ELSE LET c2 == _set_id(c1, cb.handle, cb.closeFails) IN
               IF c2.exc # "ok" THEN c2
               ELSE LET c3 == _set_signature(c2, st.signature)
                        c4 == Call(c3, Request("fetch", c3.self._id, -1, parameters,
                                               c3.self.itersize, ReplyOf(first)))
                    IN IF first.raises THEN Raise(c4, "ClientError")
                       ELSE _set_frame(c4, first.frame)

(* cb: how the client behaves during the call                              *)
(*   fails      prepareAndExecute / prepare raises                         *)
(*   empty      prepareAndExecute returns an empty list                    *)
(*   own        result['ownStatement']                                     *)
(*   handle     result['statementId'] / statement['id']                    *)
(*   closeFails closeStatement raises                                      *)
(*   failAt     executemany: the parameter set whose fetch raises, or 0    *)
(* st: the statement the server prepares for the operation                 *)
execute(c, st, parameters, cb) ==
  IF c.self._closed THEN Raise(c, "ProgrammingError")
  ELSE
  LET c0 == [c EXCEPT !.self._updatecount = -1]
      first == ClientFirstFrame(st)
  IN
  IF parameters = NoneParams
  THEN LET reply == IF cb.fails THEN "raise"
                    ELSE IF cb.empty THEN "empty"
                    ELSE ReplyOf(first)
           c1 == Call(c0, Request("prepareAndExecute", c0.self._id, -1, NoneParams,
                                  c0.self.itersize, reply))
       IN IF reply = "raise" THEN Raise(c1, "ClientError")
          ELSE IF reply = "empty" THEN c1
          ELSE LET c2 == IF cb.own THEN _set_id(c1, cb.handle, cb.closeFails) ELSE c1
               IN IF c2.exc # "ok" THEN c2
                  ELSE LET c3 == _set_frame(_set_signature(c2, st.signature),
                                            first.frame)
                       IN IF c3.exc # "ok" THEN c3
                          ELSE [c3 EXCEPT !.self._updatecount = st.count]
  ELSE LET c1 == Call(c0, Request("prepare", c0.self._id, -1, NoneParams,
                                  c0.self.itersize,
                                  IF cb.fails THEN "raise" ELSE "ok"))
       IN IF cb.fails THEN Raise(c1, "ClientError")
          ELSE LET c2 == _set_id(c1, cb.handle, cb.closeFails) IN
               IF c2.exc # "ok" THEN c2
               ELSE LET c3 == _set_signature(c2, st.signature)
                        c4 == Call(c3, Request("fetch", c3.self._id, -1, parameters,
                                               c3.self.itersize, ReplyOf(first)))
                    IN IF first.raises THEN Raise(c4, "ClientError")
                       ELSE _set_frame(c4, first.frame)

(* The loop of executemany over the first n parameter sets *)
RECURSIVE executemany_loop(_, _, _, _)
executemany_loop(c, seq_of_parameters, n, failAt) ==
  IF n = 0 THEN c
  ELSE LET before == executemany_loop(c, seq_of_parameters, n - 1, failAt) IN
       IF before.exc # "ok" THEN before
       ELSE LET c1 == Call(before, Request("fetch", before.self._id, -1,
                                           seq_of_parameters[n], 0,
                                           IF failAt = n THEN "raise" ELSE "none"))
            IN IF failAt = n THEN Raise(c1, "ClientError") ELSE c1

(* executemany without _set_frame(None) *)
executemany_keeps_frame(c, signature, seq_of_parameters, cb) ==
  IF c.self._closed THEN Raise(c, "ProgrammingError")
  ELSE
  LET c0 == [c EXCEPT !.self._updatecount = -1]
      c1 == Call(c0, Request("prepare", c0.self._id, -1, NoneParams, 0,
                             IF cb.fails THEN "raise" ELSE "ok"))
  IN IF cb.fails THEN Raise(c1, "ClientError")
     ELSE LET c2 == _set_id(c1, cb.handle, cb.closeFails) IN
          IF c2.exc # "ok" THEN c2
          ELSE executemany_loop([c2 EXCEPT !.self._signature = signature],
                                seq_of_parameters, Len(seq_of_parameters), cb.failAt)

executemany(c, signature, seq_of_parameters, cb) ==
  IF c.self._closed THEN Raise(c, "ProgrammingError")
  ELSE
  LET c0 == _set_frame([c EXCEPT !.self._updatecount = -1], NoneFrame)
      c1 == Call(c0, Request("prepare", c0.self._id, -1, NoneParams, 0,
                             IF cb.fails THEN "raise" ELSE "ok"))
  IN IF cb.fails THEN Raise(c1, "ClientError")
     ELSE LET c2 == _set_id(c1, cb.handle, cb.closeFails) IN
          IF c2.exc # "ok" THEN c2
          ELSE executemany_loop([c2 EXCEPT !.self._signature = signature],
                                seq_of_parameters, Len(seq_of_parameters), cb.failAt)

----------------------------------------------------------------------------
(* State *)

VARIABLES
  _id, _signature, _data_types, _frame, _pos, _closed, _updatecount,
  arraysize, itersize,   \* the cursor's fields
  client,                \* the statement the server holds for the cursor
  calls,                 \* the requests the last method call issued
  last,                  \* the last method call: name, arguments, outcome
  returned,              \* rows handed to the caller since the last execute
  requested,             \* offsets of the pages requested since the last execute
  sync,                  \* the buffer was installed by the last execute and
                         \* the client has answered every request since
  executed,              \* some execute has returned without raising
  unreleased             \* the statement ids the cursor was given or has
                         \* adopted and the server has not closed since

cursor == <<_id, _signature, _data_types, _frame, _pos, _closed, _updatecount,
            arraysize, itersize>>
vars == <<_id, _signature, _data_types, _frame, _pos, _closed, _updatecount,
          arraysize, itersize, client, calls, last,
          returned, requested, sync, executed, unreleased>>

Self ==
  [_id |-> _id, _signature |-> _signature, _data_types |-> _data_types,
   _frame |-> _frame, _pos |-> _pos, _closed |-> _closed,
   _updatecount |-> _updatecount, arraysize |-> arraysize, itersize |-> itersize]

(* Cursor.__init__, with the optional pre-assigned statement id *)
Init ==
  /\ _id \in {NoneId, 1}
  /\ _signature = NoneSignature
  /\ _data_types = <<>>
  /\ _frame = NoneFrame
  /\ _pos = NonePos
  /\ _closed = FALSE
  /\ arraysize = DefaultArraysize
  /\ itersize = DefaultItersize
  /\ _updatecount = -1
  /\ client = NoStatement
  /\ calls = <<>>
  /\ last = [op |-> "__init__", args |-> <<>>, exc |-> "ok", ret |-> <<>>]
  /\ returned = <<>>
  /\ requested = <<>>
  /\ sync = FALSE
  /\ executed = FALSE
  /\ unreleased = {_id} \ {NoneId}

(* The statement ids the closeStatement requests of a method call closed *)
Released(cs) ==
  { cs[i].id : i \in { j \in DOMAIN cs : cs[j].op = "closeStatement" /\ cs[j].reply = "ok" } }

(* The method call has run: its effects on the cursor and its outcome *)
Finish(c, op, args) ==
  /\ _id' = c.self._id
  /\ _signature' = c.self._signature
  /\ _data_types' = c.self._data_types
  /\ _frame' = c.self._frame
  /\ _pos' = c.self._pos
  /\ _closed' = c.self._closed
  /\ _updatecount' = c.self._updatecount
  /\ arraysize' = c.self.arraysize
  /\ itersize' = c.self.itersize
  /\ calls' = c.calls
  /\ last' = [op |-> op, args |-> args, exc |-> c.exc, ret |-> c.ret]
  /\ executed' = (executed \/ (op = "execute" /\ c.exc = "ok"))
  /\ unreleased' = (unreleased \ Released(c.calls))
                     \cup (IF c.self._id # _id THEN {c.self._id} \ {NoneId} ELSE {})

NoFault == [fails |-> FALSE, empty |-> FALSE, own |-> FALSE, handle |-> 1,
            closeFails |-> FALSE, failAt |-> 0]

(* Whether closeStatement raises is an input only where it is called *)
CloseFails(h) == IF _id \notin {NoneId, h} THEN BOOLEAN ELSE {FALSE}

(* What the client can do when it answers prepareAndExecute with a result *)
PrepareAndExecuteBehaviours ==
  { NoFault }
    \cup UNION { { [NoFault EXCEPT !.own = TRUE, !.handle = h, !.closeFails = cf] :
                     cf \in CloseFails(h) } : h \in Handles }

(* Page requests among the requests of a method call *)
RECURSIVE PageOffsets(_, _)
PageOffsets(cs, n) ==
  IF n = 0 THEN <<>>
  ELSE IF cs[n].op = "fetch" /\ cs[n].offset >= 0
       THEN Append(PageOffsets(cs, n - 1), cs[n].offset)
       ELSE PageOffsets(cs, n - 1)

ExecuteDone(c, st, parameters) ==
  LET installed == /\ c.exc \in {"ok", "NameError"}
                   /\ \E i \in DOMAIN c.calls :
                        /\ c.calls[i].op \in {"prepareAndExecute", "fetch"}
                        /\ c.calls[i].reply \in {"frame", "none", "malformed"}
  IN /\ Finish(c, "execute", <<parameters>>)
     /\ IF c.calls = <<>>
        THEN UNCHANGED <<client, returned, requested, sync>>
        ELSE /\ client' = IF installed THEN st ELSE NoStatement
             /\ returned' = <<>>
             /\ requested' = <<>>
             /\ sync' = (installed /\ c.exc = "ok")

(* The behaviours of the client in which closeStatement raises *)
CloseFailing ==
  { [NoFault EXCEPT !.own = TRUE, !.handle = h, !.closeFails = TRUE] :
      h \in { h \in Handles : _id \notin {NoneId, h} } }

(* What the client can do when it answers prepare with a statement and     *)
(* closeStatement does not raise                                           *)
PrepareBehaviours == { [NoFault EXCEPT !.handle = h] : h \in Handles }

(* No method but __del__ looks at the connection: the others run the same  *)
(* whether it is open or closed, and the client's answers are inputs.      *)
(* execute(operation, parameters): the statement the server prepares for   *)
(* the operation and the client's behaviour are inputs.  When the first    *)
(* call raises or returns no result, or when closeStatement raises after   *)
(* prepare, nothing of the statement is seen.                              *)
Execute ==
  \E parameters \in {NoneParams, 1} :
    \/ \E cb \in {[NoFault EXCEPT !.fails = TRUE], [NoFault EXCEPT !.empty = TRUE]}
                  \cup (IF parameters = NoneParams THEN {} ELSE CloseFailing) :
         ExecuteDone(execute(Ctx(Self), NoStatement, parameters, cb),
                     NoStatement, parameters)
    \/ /\ ~_closed
       /\ \E st \in Statements :
            \E cb \in IF parameters = NoneParams THEN PrepareAndExecuteBehaviours
                       ELSE PrepareBehaviours :
              ExecuteDone(execute(Ctx(Self), st, parameters, cb), st, parameters)

(* The cursor passes a parameter set on as it is: the k-th set of a        *)
(* sequence is called k.                                                   *)
ParameterSets ==
  { s \in UNION { [1..n -> Params] : n \in 0..MaxParamSets } :
      \A k \in DOMAIN s : s[k] = k }

ExecutemanyDone(c, seq_of_parameters) ==
  /\ Finish(c, "executemany", seq_of_parameters)
  /\ IF c.calls = <<>>
     THEN UNCHANGED <<client, returned, requested, sync>>
     ELSE /\ client' = NoStatement
          /\ returned' = <<>>
          /\ requested' = <<>>
          /\ sync' = FALSE

(* executemany(operation, seq_of_parameters).  When prepare or            *)
(* closeStatement raises, or the cursor is closed, neither the signature   *)
(* of the statement nor the fetches are reached.  The fetch of any         *)
(* parameter set may raise.                                                *)
Executemany ==
  \E seq_of_parameters \in ParameterSets :
    \/ \E cb \in {[NoFault EXCEPT !.fails = TRUE]} \cup CloseFailing :
         ExecutemanyDone(executemany(Ctx(Self), NoneSignature, seq_of_parameters, cb),
                         seq_of_parameters)
    \/ /\ ~_closed
       /\ \E signature \in Signatures \cup {NoneSignature}, cb \in PrepareBehaviours,
             failAt \in 0..Len(seq_of_parameters) :
            ExecutemanyDone(
              executemany(Ctx(Self), signature, seq_of_parameters,
                          [cb EXCEPT !.failAt = failAt]),
              seq_of_parameters)

(* A fetch method has run: what the caller and the server have seen *)
FetchDone(c, op, args) ==
  /\ Finish(c, op, args)
  /\ returned' = returned \o c.ret
  /\ requested' = requested \o PageOffsets(c.calls, Len(c.calls))
  /\ sync' = (sync /\ c.exc \in {"ok", "StopIteration"})
  /\ UNCHANGED client

Fetchone ==
  FetchDone(fetchone(Ctx(Self), client), "fetchone", <<>>)

Iterate ==
  FetchDone(next(Ctx(Self), client), "next", <<>>)

Fetchmany ==
  \E size \in {NoneSize} \cup 0..MaxSize :
    FetchDone(fetchmany(Ctx(Self), client, size), "fetchmany", <<size>>)

Fetchall ==
  FetchDone(fetchall(Ctx(Self), client), "fetchall", <<>>)

CloseDone(c, op, args) ==
  /\ Finish(c, op, args)
  /\ IF c.self._closed /\ ~_closed
     THEN /\ client' = NoStatement
          /\ returned' = <<>>
          /\ requested' = <<>>
          /\ sync' = FALSE
     ELSE UNCHANGED <<client, returned, requested, sync>>

(* close and __exit__ do not look at the connection *)
Close ==
  \E closeFails \in CloseFails(NoneId) : CloseDone(close(Ctx(Self), closeFails), "close", <<>>)

Exit ==
  \E closeFails \in CloseFails(NoneId) :
    CloseDone(__exit__(Ctx(Self), closeFails), "__exit__", <<>>)

(* __del__ runs when the cursor is disposed of.  The connection is the     *)
(* owner's: whether it is closed by then is an input, which the log of the *)
(* call keeps.                                                             *)
Del ==
  \E connection_closed \in BOOLEAN :
    \E closeFails \in IF connection_closed THEN {FALSE} ELSE CloseFails(NoneId) :
      CloseDone(__del__(Ctx(Self), connection_closed, closeFails), "__del__",
                <<connection_closed>>)

(* cursor.itersize = n and cursor.arraysize = n: plain attributes, which  *)
(* can be assigned at any time                                             *)
SetItersize ==
  \E n \in 1..MaxIter :
    /\ itersize' = n
    /\ calls' = <<>>
    /\ last' = [op |-> "itersize", args |-> <<n>>, exc |-> "ok", ret |-> <<>>]
    /\ UNCHANGED <<_id, _signature, _data_types, _frame, _pos, _closed, _updatecount,
                   arraysize, client, returned, requested, sync,
                   executed, unreleased>>

SetArraysize ==
  \E n \in 1..MaxSize :
    /\ arraysize' = n
    /\ calls' = <<>>
    /\ last' = [op |-> "arraysize", args |-> <<n>>, exc |-> "ok", ret |-> <<>>]
    /\ UNCHANGED <<_id, _signature, _data_types, _frame, _pos, _closed, _updatecount,
                   itersize, client, returned, requested, sync,
                   executed, unreleased>>

Next ==
  \/ Execute
  \/ Executemany
  \/ Fetchone
  \/ Iterate
  \/ Fetchmany
  \/ Fetchall
  \/ Close
  \/ Exit
  \/ Del
  \/ SetItersize
  \/ SetArraysize

Spec == Init /\ [][Next]_vars

----------------------------------------------------------------------------
(* Vocabulary of the properties *)

FetchOps == {"fetchone", "next", "fetchmany", "fetchall"}
CursorOps == {"execute", "executemany", "fetchone", "fetchmany", "fetchall", "close"}

(* The logical result set as the caller is to see it: every value of a     *)
(* decimal column as a Decimal, of a floating point column as a float,     *)
(* nulls and the other columns as the server sent them.                    *)
Delivered(st) ==
  [k \in 1..Len(ResultSet(st)) |->
     [i \in 1..Len(st.signature.columns) |->
        LET value == ResultSet(st)[k][i]
            class == st.signature.columns[i]
        IN IF value = NoneValue THEN value
           ELSE IF class = "java.math.BigDecimal"
           THEN [cls |-> "Decimal", v |-> value.v]
           ELSE IF class \in {"java.lang.Float", "java.lang.Double"}
           THEN [cls |-> "float", v |-> value.v]
           ELSE value]]

(* The page requests among the requests of a method call *)
RECURSIVE PageRequests(_, _)
PageRequests(cs, n) ==
  IF n = 0 THEN <<>>
  ELSE IF cs[n].op = "fetch" /\ cs[n].offset >= 0
       THEN Append(PageRequests(cs, n - 1), cs[n])
       ELSE PageRequests(cs, n - 1)

(* The requests of a method call other than closeStatement *)
RECURSIVE StatementRequests(_, _)
StatementRequests(cs, n) ==
  IF n = 0 THEN <<>>
  ELSE IF cs[n].op # "closeStatement"
       THEN Append(StatementRequests(cs, n - 1), cs[n])
       ELSE StatementRequests(cs, n - 1)

(* The frame of the server's statement that the cursor has buffered *)
BufferedFrameIndex ==
  CHOOSE j \in 1..Len(client.sizes) : Sum(client.sizes, j - 1) = _frame.offset

(* fetchmany(n) called until a call returns fewer than n rows (or fails):  *)
(* the rows of all the calls, and whether every call kept to the law       *)
RECURSIVE FetchmanyUntilShort(_, _, _, _)
FetchmanyUntilShort(c, cl, n, rows) ==
  LET r == fetchmany(c, cl, n) IN
  IF r.exc # "ok" THEN [exc |-> r.exc, rows |-> rows, lawful |-> TRUE]
  ELSE IF Len(r.ret) < n
  THEN [exc |-> "ok", rows |-> rows \o r.ret,
        lawful |-> fetchone(Ctx(r.self), cl).ret = <<>>]
  ELSE LET rest == FetchmanyUntilShort(Ctx(r.self), cl, n, rows \o r.ret) IN
       [rest EXCEPT !.lawful = @ /\ Len(r.ret) = n]

----------------------------------------------------------------------------
(* C1: after an execute that installed a result, and as long as the client *)
(* answers every page request, the rows the fetch methods have returned    *)
(* are the first rows of the logical result set, in server order, none     *)
(* skipped or repeated; once the position is the sentinel they are the     *)
(* whole result set, and fetchone returns None from then on, leaving the   *)
(* cursor as it is.                                                        *)
C1_RowsInServerOrder ==
  (sync /\ _frame # NoneFrame) =>
    /\ Len(returned) <= Len(ResultSet(client))
    /\ returned = SubSeq(Delivered(client), 1, Len(returned))
    /\ (_pos # NonePos) =>
         /\ Len(returned) = _frame.offset + _pos
         /\ Len(returned) < Len(ResultSet(client))
    /\ (_pos = NonePos) =>
         /\ returned = Delivered(client)
         /\ LET r == fetchone(Ctx(Self), client) IN
              r.exc = "ok" /\ r.ret = <<>> /\ r.calls = <<>> /\ r.self = Self

C1_Witness ==
  /\ sync
  /\ Len(client.sizes) = MaxRows
  /\ Len(returned) = MaxRows
  /\ returned = Delivered(client)
  /\ last.op = "fetchone" /\ last.exc = "ok" /\ last.ret = <<>>

(* C2: partition law.  Wherever fetchall would succeed, calling            *)
(* fetchmany(n) until a call returns fewer than n rows succeeds too and    *)
(* returns, concatenated, the rows of fetchall; each call returns at most  *)
(* n rows, and fewer than n only when no row is left.                      *)
C2_PartitionLaw ==
  \A n \in 1..MaxSize :
    LET all == fetchall(Ctx(Self), client)
        many == FetchmanyUntilShort(Ctx(Self), client, n, <<>>)
    IN all.exc = "ok" =>
         /\ many.exc = "ok"
         /\ many.rows = all.ret
         /\ many.lawful
         /\ \A m \in 1..MaxSize : Len(fetchmany(Ctx(Self), client, m).ret) <= m

C2_Witness ==
  /\ sync /\ _pos = 0 /\ returned = <<>>
  /\ Len(client.sizes) >= 2
  /\ Len(fetchall(Ctx(Self), client).ret) = MaxRows
  /\ FetchmanyUntilShort(Ctx(Self), client, 1, <<>>).rows = Delivered(client)
  /\ Len(fetchmany(Ctx(Self), client, MaxSize).ret) = MaxSize

(* C3: once close() has succeeded, execute, executemany, fetchone,         *)
(* fetchmany (whatever the size), fetchall and close all raise             *)
(* ProgrammingError and issue no request.                                  *)
C3_ClosedRefusesAll ==
  [][(_closed /\ last' # last /\ last'.op \in CursorOps) =>
       (last'.exc = "ProgrammingError" /\ calls' = <<>>)]_vars

(* C4: a method call that received a frame with rows = [] and done = false *)
(* fails with InternalError, returns no row and leaves the position at the *)
(* sentinel.                                                               *)
C4_ProtocolViolation ==
  (\E i \in DOMAIN calls : calls[i].reply = "malformed") =>
    /\ last.exc = "InternalError"
    /\ last.ret = <<>>
    /\ _pos = NonePos

(* C5: every page request of a fetch method carries the cursor's itersize  *)
(* and statement id; the first is made at the offset of the buffered frame *)
(* plus the number of its rows, each later one at a greater offset (the    *)
(* end of the frame the one before it brought); and the offsets requested  *)
(* since the last execute are strictly increasing.                         *)
C5_PageRequests ==
  [][(last'.op \in FetchOps /\ cursor' # cursor) =>
       LET reqs == PageRequests(calls', Len(calls')) IN
         /\ \A i \in 1..Len(reqs) :
              /\ reqs[i].maxRowCount = itersize
              /\ reqs[i].id = _id
              /\ reqs[i].params = NoneParams
         /\ Len(reqs) >= 1 => reqs[1].offset = _frame.offset + Len(_frame.rows)
         /\ \A i \in 1..(Len(reqs) - 1) : reqs[i + 1].offset > reqs[i].offset
         /\ sync => \A i \in 1..Len(reqs) :
                      reqs[i].offset = Sum(client.sizes, BufferedFrameIndex + i - 1)
         /\ \A i \in 1..(Len(requested') - 1) : requested'[i + 1] > requested'[i]]_vars

C5_Witness ==
  /\ sync
  /\ itersize # DefaultItersize
  /\ Len(requested) = MaxRows
  /\ last.op = "fetchone" /\ last.exc = "ok"
  /\ Len(calls) = 1 /\ calls[1].op = "fetch" /\ calls[1].offset = MaxRows
  /\ calls[1].maxRowCount = itersize

(* C6: for a result set delivered as k frames, one page request has been   *)
(* made for every frame before the buffered one and no other; fetchall     *)
(* returns the rows that are left, in order, with one request per frame    *)
(* after the buffered one, so k - 1 requests right after execute; no       *)
(* request is made once the buffered frame is marked done.                 *)
C6_FetchesPerFrame ==
  (sync /\ _frame # NoneFrame) =>
    LET all == fetchall(Ctx(Self), client) IN
      /\ _frame.done => all.calls = <<>>
      /\ client.kind = "query" =>
           /\ Len(requested) = BufferedFrameIndex - 1
           /\ _pos = NonePos => Len(requested) = Len(client.sizes) - 1
           /\ all.exc = "ok" =>
                /\ returned \o all.ret = Delivered(client)
                /\ Len(all.calls) = Len(client.sizes) - BufferedFrameIndex
                /\ Len(PageRequests(all.calls, Len(all.calls))) = Len(all.calls)

C6_Witness ==
  /\ sync
  /\ last.op = "fetchall" /\ last.exc = "ok"
  /\ Len(client.sizes) = 3
  /\ client.sizes[3] = 0
  /\ Len(PageRequests(calls, Len(calls))) = 2
  /\ Len(last.ret) = MaxRows
  /\ last.ret = Delivered(client)

(* C7: an executemany that returns has issued, closeStatement aside, one   *)
(* prepare with maxRowCount 0 and then one fetch per parameter set, in the *)
(* order of the sets, each with maxRowCount 0; no frame is buffered, the   *)
(* position is the sentinel and fetchone raises ProgrammingError.          *)
C7_Executemany ==
  (last.op = "executemany" /\ last.exc = "ok") =>
    LET reqs == StatementRequests(calls, Len(calls)) IN
      /\ Len(reqs) = 1 + Len(last.args)
      /\ reqs[1].op = "prepare" /\ reqs[1].maxRowCount = 0
      /\ \A i \in 1..Len(last.args) :
           /\ reqs[i + 1].op = "fetch"
           /\ reqs[i + 1].params = last.args[i]
           /\ reqs[i + 1].maxRowCount = 0
           /\ reqs[i + 1].id = _id
      /\ _frame = NoneFrame
      /\ _pos = NonePos
      /\ fetchone(Ctx(Self), client).exc = "ProgrammingError"
      /\ fetchone(Ctx(Self), client).calls = <<>>

(* An executemany with the most parameter sets, the sets not all equal,    *)
(* on a cursor that still holds the conversions of an executed query       *)
C7_Witness ==
  /\ last.op = "executemany" /\ last.exc = "ok"
  /\ Len(last.args) = MaxParamSets
  /\ last.args[1] # last.args[MaxParamSets]
  /\ _data_types = DataTypes(QuerySignature.columns, Len(QuerySignature.columns))
  /\ _frame = NoneFrame

(* Whether the last execute took a result from prepareAndExecute *)
ResultInstalled ==
  /\ last.op = "execute" /\ last.exc = "ok"
  /\ \E i \in DOMAIN calls :
       calls[i].op = "prepareAndExecute" /\ calls[i].reply \in {"frame", "none"}

(* C8 as stated: after a data-modifying execute that returns, with or      *)
(* without parameters, the update count is the count the server has for    *)
(* the statement; after a query that returns rows it is -1.                *)
C8_UpdateCountAsStated ==
  (last.op = "execute" /\ last.exc = "ok" /\ sync) =>
    /\ client.kind = "dml" => _updatecount = client.count /\ _updatecount >= 0
    /\ client.kind = "query" => _updatecount = -1

(* C8 amended: after an execute on an open cursor the update count is the  *)
(* one the server reported in the result of prepareAndExecute when such a  *)
(* result was installed (-1 for a query, the affected-row count for a      *)
(* data-modifying statement), and -1 in every other case: with parameters, *)
(* with an empty result list, or when the execute failed.                  *)
C8_UpdateCount ==
  (last.op = "execute" /\ last.exc # "ProgrammingError") =>
    /\ ResultInstalled => _updatecount = client.count
    /\ (ResultInstalled /\ client.kind = "dml") => _updatecount >= 0
    /\ (ResultInstalled /\ client.kind = "query") => _updatecount = -1
    /\ ~ResultInstalled => _updatecount = -1

C8_Witness ==
  /\ ResultInstalled
  /\ last.args = <<NoneParams>>
  /\ client.kind = "dml"
  /\ _updatecount = MaxCount

(* C9: when prepareAndExecute, prepare or the fetch that carries the       *)
(* parameters raises in execute, the cursor is left with update count -1   *)
(* and no frame.                                                           *)
C9_FailedExecuteLeavesNoResult ==
  ( /\ last.op = "execute" /\ last.exc = "ClientError"
    /\ \E i \in DOMAIN calls :
         calls[i].op # "closeStatement" /\ calls[i].reply = "raise" ) =>
    /\ _updatecount = -1
    /\ _frame = NoneFrame
    /\ _pos = NonePos

(* C10: __del__ never raises; on an open connection it leaves the cursor   *)
(* closed; on a closed cursor or a closed connection it issues no request. *)
C10_ImplicitCleanup ==
  last.op = "__del__" =>
    LET connection_closed == last.args[1] IN
      /\ last.exc = "ok"
      /\ ~connection_closed => _closed
      /\ connection_closed => calls = <<>>

(* The closeStatement requests among the requests of a method call *)
CloseRequests(cs) == { i \in DOMAIN cs : cs[i].op = "closeStatement" }

(* C11: a method call issues closeStatement at most once, for the          *)
(* statement id the cursor holds, and only in close (or __del__ while the  *)
(* connection is open) on an open cursor, or in execute / executemany      *)
(* taking another id.  Closing an open cursor issues it exactly when an id *)
(* is held.  The id changes only after the id held before was closed, an   *)
(* id is kept only when no closeStatement was answered, and a cursor that  *)
(* has just been closed has neither id nor signature.                      *)
C11_ReleaseOnReplaceOrClose ==
  [][LET closes == CloseRequests(calls')
         answered == { i \in closes : calls'[i].reply = "ok" }
         closing == /\ ~_closed
                    /\ \/ last'.op \in {"close", "__exit__"}
                       \/ last'.op = "__del__" /\ ~last'.args[1]
     IN /\ Cardinality(closes) <= 1
        /\ \A i \in closes : calls'[i].id = _id /\ _id # NoneId
        /\ closing => (closes # {} <=> _id # NoneId)
        /\ (~closing /\ closes # {}) => last'.op \in {"execute", "executemany"}
        /\ (~closing /\ answered # {}) => _id' \notin {NoneId, _id}
        /\ (_id # NoneId /\ _id' # _id) => answered # {}
        /\ _id' = _id => answered = {}
        /\ (_closed' /\ ~_closed) =>
             _id' = NoneId /\ _signature' = NoneSignature]_vars

(* An execute that took another statement id and closed the one held, and *)
(* left the signature of a query installed                                 *)
C11_Witness ==
  /\ last.op = "execute" /\ last.exc = "ok"
  /\ \E i \in CloseRequests(calls) : calls[i].id = 1 /\ calls[i].reply = "ok"
  /\ _id = 2
  /\ _signature = QuerySignature

(* Whether the last call was an execute or a fetchone that put the frame  *)
(* of a reply in the buffer                                                *)
FrameReplaced ==
  /\ last.op \in {"execute", "fetchone", "next"}
  /\ last.exc \in {"ok", "NameError"}
  /\ \E i \in DOMAIN calls :
       /\ calls[i].op \in {"prepareAndExecute", "fetch"}
       /\ calls[i].reply \in {"frame", "none", "malformed"}

(* C12: in every reachable state, those left by a failed call included,    *)
(* the position is the sentinel or an index into the rows of the buffered  *)
(* frame, and it is the sentinel when no frame is buffered; right after a  *)
(* call has put a new frame in the buffer the position is 0 if and only if *)
(* that frame has rows.                                                    *)
C12_PositionInRange ==
  /\ _pos = NonePos \/ (0 <= _pos /\ _pos < Len(_frame.rows))
  /\ _frame = NoneFrame => _pos = NonePos
  /\ FrameReplaced => (_pos = 0 <=> _frame.rows # <<>>)

(* A fetchone that consumed the last row of a frame and put the empty      *)
(* final frame in the buffer                                               *)
C12_Witness ==
  /\ last.op = "fetchone" /\ last.exc = "ok" /\ Len(last.ret) = 1
  /\ \E i \in DOMAIN calls : calls[i].op = "fetch" /\ calls[i].reply = "frame"
  /\ _frame # NoneFrame /\ _frame.rows = <<>> /\ _frame.done
  /\ _frame.offset = MaxRows
  /\ _pos = NonePos

(* C13: as long as no execute has returned without raising, no frame is   *)
(* buffered, also after an execute that failed on its first frame, and     *)
(* fetchone raises ProgrammingError; no frame is buffered on a closed      *)
(* cursor.                                                                 *)
C13_NoFrameBeforeExecute ==
  /\ ~executed =>
       /\ _frame = NoneFrame
       /\ fetchone(Ctx(Self), client).exc = "ProgrammingError"
  /\ _closed => _frame = NoneFrame

(* C14: in every reachable state the conversions of the cursor are those  *)
(* derived from the signature it holds, none when it holds no signature.   *)
C14_TableFollowsSignature ==
  _data_types = IF _signature = NoneSignature THEN <<>>
                ELSE DataTypes(_signature.columns, Len(_signature.columns))

(* A row with every conversion of a table applied, once, to the value of  *)
(* its column unless the value is None                                     *)
Converted(row, data_types) ==
  [i \in 1..Len(row) |->
     LET entries == { n \in DOMAIN data_types : data_types[n].i = i - 1 } IN
     IF row[i] = NoneValue \/ entries = {} THEN row[i]
     ELSE [cls |-> data_types[CHOOSE n \in entries : TRUE].data_type, v |-> row[i].v]]

(* Whether no value of a row has been converted *)
AsReceived(row) == \A i \in 1..Len(row) : row[i].cls \in {"wire", "NoneType"}

(* C15: the row fetchone returns is the row at the position as the server  *)
(* sent it with every conversion of the cursor applied once to its values  *)
(* that are not None, and None left as None; the rows of the buffer at and *)
(* after the position have not been converted; and every row a fetch       *)
(* method has returned holds, in each column that has a conversion, a      *)
(* value of the converted type or None, the other columns as received.     *)
C15_CoercedOnReturn ==
  /\ (_frame # NoneFrame /\ _pos # NonePos) =>
       \A k \in (_pos + 1)..Len(_frame.rows) : AsReceived(_frame.rows[k])
  /\ LET r == fetchone(Ctx(Self), client) IN
       (r.exc = "ok" /\ r.ret # <<>>) =>
         /\ r.ret[1] = Converted(_frame.rows[_pos + 1], _data_types)
         /\ \A i \in 1..Len(r.ret[1]) :
              (_frame.rows[_pos + 1][i] = NoneValue) <=> (r.ret[1][i] = NoneValue)
         /\ r.self._frame.offset = _frame.offset =>
              \A k \in 1..Len(_frame.rows) :
                k # _pos + 1 => r.self._frame.rows[k] = _frame.rows[k]
  /\ last.op \in FetchOps =>
       \A k \in 1..Len(last.ret) :
         /\ \A n \in DOMAIN _data_types :
              LET value == last.ret[k][_data_types[n].i + 1] IN
                value = NoneValue \/ value.cls = _data_types[n].data_type
         /\ \A i \in 1..Len(last.ret[k]) :
              (\A n \in DOMAIN _data_types : _data_types[n].i # i - 1) =>
                 last.ret[k][i].cls \in {"wire", "NoneType"}

(* A fetchone has returned a row with a Decimal and a float in it, the row *)
(* after it is in the buffer as the server sent it, and has a null         *)
C15_Witness ==
  /\ last.op = "fetchone" /\ last.exc = "ok" /\ Len(last.ret) = 1
  /\ last.ret[1][2].cls = "Decimal" /\ last.ret[1][3].cls = "float"
  /\ _pos = 1
  /\ AsReceived(_frame.rows[2])
  /\ _frame.rows[2][2] = NoneValue
  /\ fetchone(Ctx(Self), client).ret[1][2] = NoneValue
  /\ fetchone(Ctx(Self), client).ret[1][3].cls = "float"

(* What an execute that returned has requested and installed, but for    *)
(* the maxRowCount of its prepare request                                  *)
DispatchOf(reqs) ==
  IF last.args[1] = NoneParams
  THEN /\ Len(reqs) = 1
       /\ reqs[1].op = "prepareAndExecute"
       /\ reqs[1].maxRowCount = itersize
       /\ reqs[1].params = NoneParams
       /\ reqs[1].reply # "empty" =>
            /\ _signature = client.signature
            /\ _frame = ClientFirstFrame(client).frame
            /\ _updatecount = client.count
  ELSE /\ Len(reqs) = 2
       /\ reqs[1].op = "prepare"
       /\ reqs[1].params = NoneParams
       /\ reqs[2].op = "fetch"
       /\ reqs[2].params = last.args[1]
       /\ reqs[2].maxRowCount = itersize
       /\ reqs[2].id = _id
       /\ _signature = client.signature
       /\ _frame = ClientFirstFrame(client).frame

(* The statement id after an execute that returns: without parameters the *)
(* id of the result when the result owns its statement and the id held     *)
(* otherwise; with parameters the id of the prepared statement             *)
AdoptionOf(st, own, h) ==
  LET cb == [NoFault EXCEPT !.own = own, !.handle = h]
      plain == execute(Ctx(Self), st, NoneParams, cb)
      bound == execute(Ctx(Self), st, 1, cb)
  IN /\ plain.exc = "ok" => plain.self._id = IF own THEN h ELSE _id
     /\ bound.exc = "ok" => bound.self._id = h

(* The statements the client answers without raising *)
FaultFree == { st \in Statements : st.fault.at = 0 }

(* C16 as stated: an execute without parameters issues one                 *)
(* prepareAndExecute with maxRowCount = itersize, takes the id of the      *)
(* result only when the result owns its statement, and installs the        *)
(* signature, the first frame and the update count; with parameters it     *)
(* issues one prepare with no bound on the rows, takes the id of the       *)
(* statement, installs its signature, and issues one fetch with the        *)
(* parameters and maxRowCount = itersize whose frame becomes the buffer.   *)
C16_DispatchAsStated ==
  /\ (last.op = "execute" /\ last.exc = "ok") =>
       LET reqs == StatementRequests(calls, Len(calls)) IN
         /\ DispatchOf(reqs)
         /\ reqs[1].op = "prepare" => reqs[1].maxRowCount \notin Nat
  /\ \A st \in FaultFree, own \in BOOLEAN, h \in Handles : AdoptionOf(st, own, h)

(* C16 amended: as stated, except that the prepare request carries         *)
(* maxRowCount = itersize, like the prepareAndExecute request.             *)
C16_Dispatch ==
  /\ (last.op = "execute" /\ last.exc = "ok") =>
       LET reqs == StatementRequests(calls, Len(calls)) IN
         /\ DispatchOf(reqs)
         /\ reqs[1].op = "prepare" => reqs[1].maxRowCount = itersize
  /\ \A st \in FaultFree, own \in BOOLEAN, h \in Handles : AdoptionOf(st, own, h)

(* An execute with parameters, with a configured itersize, that closed the *)
(* statement held, took the prepared one and buffered a frame with rows    *)
C16_Witness ==
  /\ last.op = "execute" /\ last.exc = "ok" /\ last.args = <<1>>
  /\ itersize # DefaultItersize
  /\ Len(calls) = 3
  /\ calls[1].op = "prepare" /\ calls[1].maxRowCount = itersize
  /\ calls[2].op = "closeStatement"
  /\ calls[3].op = "fetch" /\ calls[3].params = 1 /\ calls[3].id = _id
  /\ Len(_frame.rows) = MaxRows
  /\ _signature = QuerySignature

(* C17: rownumber is the offset of the buffered frame plus the position   *)
(* when the position is not the sentinel, and None otherwise, which is     *)
(* when fetchone would read no row; for a result whose frames follow one   *)
(* another from offset 0 it is the number of rows returned since the       *)
(* execute, and the row fetchone returns next is the row with that index   *)
(* in the logical result set.                                              *)
C17_Rownumber ==
  LET r == fetchone(Ctx(Self), client) IN
    /\ (_frame # NoneFrame /\ _pos # NonePos) =>
         rownumber(Self) = _frame.offset + _pos
    /\ (_frame = NoneFrame \/ _pos = NonePos) =>
         /\ rownumber(Self) = NonePos
         /\ r.exc = "ProgrammingError" \/ (r.exc = "ok" /\ r.ret = <<>>)
    /\ (sync /\ _frame # NoneFrame /\ _pos # NonePos) =>
         /\ rownumber(Self) = Len(returned)
         /\ rownumber(Self) < Len(Delivered(client))
         /\ r.exc = "ok" => r.ret = <<Delivered(client)[rownumber(Self) + 1]>>

(* The first row of the second frame is the next to be read *)
C17_Witness ==
  /\ sync
  /\ _frame # NoneFrame /\ _frame.offset = 1 /\ _pos = 0
  /\ rownumber(Self) = 1
  /\ Len(returned) = 1
  /\ fetchone(Ctx(Self), client).ret = <<Delivered(client)[2]>>

(* C18: fetchone returns None only when the buffered frame is marked done *)
(* (and its rows have all been read); and after a fetchone that failed in  *)
(* its request for the next frame the row it was reading is still the next *)
(* to be read.                                                             *)
C18_EndOnlyWhenDone ==
  /\ LET r == fetchone(Ctx(Self), client) IN
       (r.exc = "ok" /\ r.ret = <<>>) => (_frame.done /\ _pos = NonePos)
  /\ ( /\ last.op \in {"fetchone", "next"} /\ last.exc # "ok"
       /\ \E i \in DOMAIN calls : calls[i].op = "fetch" ) =>
       /\ _pos = Len(_frame.rows) - 1
       /\ AsReceived(_frame.rows[_pos + 1])

(* C19: right after an execute that returned without raising, also with   *)
(* an empty result list, the rows the cursor gives out are the rows of the *)
(* statement just executed, none when it has no result, and the signature  *)
(* is the one of that statement.                                           *)
C19_RowsOfLastExecute ==
  (last.op = "execute" /\ last.exc = "ok") =>
    LET all == fetchall(Ctx(Self), client) IN
      /\ all.exc = "ok" => all.ret = Delivered(client)
      /\ _signature = client.signature

(* C20: the statement ids the cursor was given or has adopted and the     *)
(* server has not closed are at most the one id it holds; a method call    *)
(* issues closeStatement only for the id held when it is issued, which is  *)
(* one not closed before; and a closed cursor has none left open.          *)
C20_NoLeakNoDoubleRelease ==
  /\ unreleased \subseteq ({_id} \ {NoneId})
  /\ [][/\ \A i \in CloseRequests(calls') :
             calls'[i].id = _id /\ calls'[i].id \in unreleased
        /\ Cardinality(Released(calls')) = Cardinality({ i \in CloseRequests(calls') :
                                                          calls'[i].reply = "ok" })
        /\ unreleased' \subseteq ({_id'} \ {NoneId})
        /\ _closed' => unreleased' = {}]_vars

(* A cursor that was closed after it had exchanged the statement it held   *)
(* for another one: both have been closed                                  *)
C20_Witness ==
  /\ _closed /\ last.op = "close" /\ last.exc = "ok"
  /\ \E i \in CloseRequests(calls) : calls[i].id = 2 /\ calls[i].reply = "ok"
  /\ _id = NoneId
  /\ unreleased = {}

====
